---- MODULE Spec2Model ----
(***************************************************************************)
(* Model of generate_plots.py: main() reads MT25081_Part_D_CSV.csv,        *)
(* validates it and renders four charts, one after the other, each saved   *)
(* as a PNG file.  The state is the input file, the position of main(),    *)
(* the loaded table df, matplotlib's open figures, the files of the        *)
(* working directory, the console output and the exit status.              *)
(***************************************************************************)
EXTENDS Integers, Sequences, FiniteSets, TLC

VARIABLES
    csv,        \* the input file: [exists, parses, columns, rows]
    pc,         \* position of main()
    chart,      \* which of the four charts main() is working on (1..4)
    idx,        \* loop index of the execution-time chart's for loop (line 276)
    df,         \* the DataFrame read_csv returned: [columns, rows]
    figs,       \* pyplot's open figures, the current figure last
    fs,         \* image files of the working directory: name -> saved figure
    written,    \* image files this run has saved, in order
    stdout,     \* the lines printed by this run
    status,     \* process exit status (meaningful when pc = "exited")
    uncaught,   \* the run ended by an uncaught exception (traceback)
    run         \* "first" or "second" run on the same input

vars == <<csv, pc, chart, idx, df, figs, fs, written, stdout, status, uncaught, run>>

----------------------------------------------------------------------------
(* Bounds and constants *)

\* longest input table the model enumerates
MaxRows == 3

\* smallest and largest scale of the benchmark (header comment, line 5)
MinScale == 2
MaxScale == 8

csv_file == "MT25081_Part_D_CSV.csv"

required_columns ==
    {"Program", "Worker_Type", "Scale", "AvgCPU_Percent",
     "AvgMemory_Percent", "ExecutionTime_Sec"}

CpuPng  == "MT25081_cpu_vs_components.png"
MemPng  == "MT25081_mem_vs_components.png"
IoPng   == "MT25081_io_vs_components.png"
TimePng == "MT25081_time_vs_components.png"

\* mutant: the third savefig call names the first chart's file again
SaveNamesRepeated == <<CpuPng, MemPng, CpuPng, TimePng>>

\* mutant: the memory and I/O charts are saved under each other's name
SaveNamesSwapped == <<CpuPng, IoPng, MemPng, TimePng>>

\* the file each plt.savefig call names, in program order
SaveNames == <<CpuPng, MemPng, IoPng, TimePng>>

\* the file each "Generated: ..." line names, in program order
PrintNames == <<CpuPng, MemPng, IoPng, TimePng>>

\* the worker list of the for loop at line 276
LoopWorkers == <<"cpu", "mem", "io">>

----------------------------------------------------------------------------
(* Inputs *)

\* the (Program, Worker_Type) pairs the charts plot
NativePairs == {"progA", "progB"} \X {"cpu", "mem", "io"}

\* a row of a third program and a row of a fourth worker type
ForeignPairs == {<<"progC", "cpu">>, <<"progA", "net">>}

Scales == {MinScale, MaxScale}

NativeKeys == NativePairs \X Scales

Keys == (NativePairs \cup ForeignPairs) \X Scales

\* Row i of the file: its measures are distinct per row and per column, so
\* that a point identifies the row and the column it was taken from.
MkRow(k, i) ==
    [Program           |-> k[1][1],
     Worker_Type       |-> k[1][2],
     Scale             |-> k[2],
     AvgCPU_Percent    |-> 10 * i + 1,
     AvgMemory_Percent |-> 10 * i + 2,
     ExecutionTime_Sec |-> 10 * i + 3]

\* the table whose i-th row carries the i-th key of ks
MkTable(ks) == [i \in DOMAIN ks |-> MkRow(ks[i], i)]

AllColumns == required_columns \cup {"Notes"}

MissingFile == [exists |-> FALSE, parses |-> FALSE, columns |-> {}, rows |-> <<>>]
Unparseable == [exists |-> TRUE, parses |-> FALSE, columns |-> {}, rows |-> <<>>]
Parsed(c, t) == [exists |-> TRUE, parses |-> TRUE, columns |-> c, rows |-> t]

\* The input files of the model: no file; a file read_csv rejects; a table
\* of at most one row under any set of columns; under the six required
\* columns, a table of at most MaxRows rows of the plotted programs and
\* workers, or a shorter one with rows of other programs and workers too.
IsInput(f) ==
    \/ f = MissingFile
    \/ f = Unparseable
    \/ \E c \in SUBSET AllColumns, n \in 0..1 :
          \E ks \in [1..n -> Keys] : f = Parsed(c, MkTable(ks))
    \/ \E n \in 0..(MaxRows - 1) :
          \E ks \in [1..n -> Keys] : f = Parsed(required_columns, MkTable(ks))
    \/ \E n \in 0..MaxRows :
          \E ks \in [1..n -> NativeKeys] : f = Parsed(required_columns, MkTable(ks))

----------------------------------------------------------------------------
(* pandas and matplotlib operations used by main() *)

\* df[df[col] == value]
Where(rows, col, value) == SelectSeq(rows, LAMBDA r : r[col] = value)

\* mutant: descending order (ascending=False)
InsertRowDescending(sorted, r) ==
    LET k == Cardinality({i \in DOMAIN sorted : sorted[i].Scale >= r.Scale})
    IN  SubSeq(sorted, 1, k) \o <<r>> \o SubSeq(sorted, k + 1, Len(sorted))

\* one step of the insertion sort: r goes after the rows whose Scale is <= its own
InsertRow(sorted, r) ==
    LET k == Cardinality({i \in DOMAIN sorted : sorted[i].Scale <= r.Scale})
    IN  SubSeq(sorted, 1, k) \o <<r>> \o SubSeq(sorted, k + 1, Len(sorted))

RECURSIVE sort_values(_)
\* .sort_values('Scale'): ascending; below 17 rows numpy's sort is an insertion sort
sort_values(rows) ==
    IF rows = <<>> THEN <<>>
    ELSE InsertRow(sort_values(SubSeq(rows, 1, Len(rows) - 1)), rows[Len(rows)])

\* the (x, y) points of ax.plot(sub['Scale'], sub[ycol])
Points(rows, ycol) == [i \in DOMAIN rows |-> <<rows[i].Scale, rows[i][ycol]>>]

\* ax.plot on axes number a of the current figure: one more series on it
AxPlot(fgs, a, series) ==
    LET cur == Len(fgs)
    IN  [fgs EXCEPT ![cur] = [@ EXCEPT ![a] = Append(@, series)]]

\* plt.subplots(...) with n axes: a new, empty, current figure
Subplots(fgs, n) == Append(fgs, [a \in 1..n |-> <<>>])

\* mutant: the plt.close() call is missing
CloseNothing(fgs) == fgs

\* plt.close(): the current figure is released
Close(fgs) == IF fgs = <<>> THEN <<>> ELSE SubSeq(fgs, 1, Len(fgs) - 1)

\* mutant: an existing file is added to instead of replaced
SaveFigAppend(files, name, fig) ==
    [n \in (DOMAIN files) \cup {name} |->
        IF n # name THEN files[n]
        ELSE IF name \in DOMAIN files THEN files[name] \o fig ELSE fig]

\* plt.savefig(name): the current figure is written to name, replacing the file
SaveFig(files, name, fig) ==
    [n \in (DOMAIN files) \cup {name} |-> IF n = name THEN fig ELSE files[n]]

Msg(kind, arg) == <<kind, arg>>

NoFiles == [n \in {} |-> <<>>]
NoTable == [columns |-> {}, rows |-> <<>>]

----------------------------------------------------------------------------
(* The filtered subsets of each chart *)

cpu_data(d) == Where(d.rows, "Worker_Type", "cpu")
progA_cpu(d) == sort_values(Where(cpu_data(d), "Program", "progA"))
progB_cpu(d) == sort_values(Where(cpu_data(d), "Program", "progB"))

mem_data(d) == Where(d.rows, "Worker_Type", "mem")
progA_mem(d) == sort_values(Where(mem_data(d), "Program", "progA"))
progB_mem(d) == sort_values(Where(mem_data(d), "Program", "progB"))

io_data(d) == Where(d.rows, "Worker_Type", "io")
progA_io(d) == sort_values(Where(io_data(d), "Program", "progA"))
progB_io(d) == sort_values(Where(io_data(d), "Program", "progB"))

progA_subset(d, worker) ==
    sort_values(SelectSeq(d.rows,
        LAMBDA r : r.Program = "progA" /\ r.Worker_Type = worker))
\* mutant: the progA filter pasted into the progB subset
progB_subset_pasted(d, worker) ==
    sort_values(SelectSeq(d.rows,
        LAMBDA r : r.Program = "progA" /\ r.Worker_Type = worker))

progB_subset(d, worker) ==
    sort_values(SelectSeq(d.rows,
        LAMBDA r : r.Program = "progB" /\ r.Worker_Type = worker))

----------------------------------------------------------------------------
(* main() *)

Init ==
    /\ IsInput(csv)
    /\ pc = "exists"
    /\ chart = 1
    /\ idx = 1
    /\ df = NoTable
    /\ figs = <<>>
    /\ fs = NoFiles
    /\ written = <<>>
    /\ stdout = <<>>
    /\ status = 0
    /\ uncaught = FALSE
    /\ run = "first"

\* mutant: sys.exit() without the code
ExitNoCode(code, msgs) ==
    /\ pc' = "exited"
    /\ status' = 0
    /\ stdout' = stdout \o msgs

\* sys.exit(code) after printing msgs
Exit(code, msgs) ==
    /\ pc' = "exited"
    /\ status' = code
    /\ stdout' = stdout \o msgs

\* lines 62-68
CheckExists ==
    /\ pc = "exists"
    /\ IF ~csv.exists
       THEN Exit(1, <<Msg("Error: not found", csv_file), Msg("Please run Part D benchmark first", "")>>)
       ELSE /\ pc' = "read"
            /\ UNCHANGED <<status, stdout>>
    /\ UNCHANGED <<csv, chart, idx, df, figs, fs, written, uncaught, run>>

\* lines 72-77
ReadCsv ==
    /\ pc = "read"
    /\ IF ~csv.parses
       THEN /\ Exit(1, <<Msg("Reading benchmark data...", ""), Msg("Error reading CSV", "")>>)
            /\ df' = df
       ELSE /\ pc' = "validate"
            /\ df' = [columns |-> csv.columns, rows |-> csv.rows]
            /\ stdout' = Append(stdout, Msg("Reading benchmark data...", ""))
            /\ status' = status
    /\ UNCHANGED <<csv, chart, idx, figs, fs, written, uncaught, run>>

\* mutant: any(...) in place of all(...)
HasAnyRequiredColumn(d) == \E col \in required_columns : col \in d.columns

\* line 82: all(col in df.columns for col in required_columns)
HasRequiredColumns(d) == \A col \in required_columns : col \in d.columns

\* lines 79-84
Validate ==
    /\ pc = "validate"
    /\ IF ~HasRequiredColumns(df)
       THEN Exit(1, <<Msg("Error: CSV missing required columns", "")>>)
       ELSE /\ pc' = "configure"
            /\ UNCHANGED <<status, stdout>>
    /\ UNCHANGED <<csv, chart, idx, df, figs, fs, written, uncaught, run>>

\* lines 86-114: the data summary, plt.style.use, "Generating ..."
Configure ==
    /\ pc = "configure"
    /\ stdout' = stdout \o <<Msg("Loaded data rows", ""), Msg("Generating performance analysis plots...", "")>>
    /\ pc' = "subplots"
    /\ chart' = 1
    /\ UNCHANGED <<csv, idx, df, figs, fs, written, status, uncaught, run>>

\* the number of axes each plt.subplots call asks for (lines 117, 171, 216, 273)
AxesOf(c) == IF c = 4 THEN 3 ELSE 1

\* lines 117, 171, 216, 273
CreateFigure ==
    /\ pc = "subplots"
    /\ figs' = Subplots(figs, AxesOf(chart))
    /\ idx' = 1
    /\ pc' = "plot"
    /\ UNCHANGED <<csv, chart, df, fs, written, stdout, status, uncaught, run>>

\* mutant: an empty subset is treated as an error
PlotCpuRejectEmpty ==
    /\ pc = "plot" /\ chart = 1
    /\ IF progA_cpu(df) = <<>> \/ progB_cpu(df) = <<>>
       THEN /\ Exit(1, <<Msg("Error: no data", "cpu")>>)
            /\ figs' = figs
       ELSE /\ figs' = AxPlot(AxPlot(figs, 1, Points(progA_cpu(df), "AvgCPU_Percent")),
                              1, Points(progB_cpu(df), "AvgCPU_Percent"))
            /\ pc' = "savefig"
            /\ UNCHANGED <<stdout, status>>
    /\ UNCHANGED <<csv, chart, idx, df, fs, written, uncaught, run>>

\* lines 119-148
PlotCpu ==
    /\ pc = "plot" /\ chart = 1
    /\ figs' = AxPlot(AxPlot(figs, 1, Points(progA_cpu(df), "AvgCPU_Percent")),
                      1, Points(progB_cpu(df), "AvgCPU_Percent"))
    /\ pc' = "savefig"
    /\ UNCHANGED <<csv, chart, idx, df, fs, written, stdout, status, uncaught, run>>

\* lines 173-194
PlotMem ==
    /\ pc = "plot" /\ chart = 2
    /\ figs' = AxPlot(AxPlot(figs, 1, Points(progA_mem(df), "AvgMemory_Percent")),
                      1, Points(progB_mem(df), "AvgMemory_Percent"))
    /\ pc' = "savefig"
    /\ UNCHANGED <<csv, chart, idx, df, fs, written, stdout, status, uncaught, run>>

\* lines 218-239
PlotIo ==
    /\ pc = "plot" /\ chart = 3
    /\ figs' = AxPlot(AxPlot(figs, 1, Points(progA_io(df), "AvgCPU_Percent")),
                      1, Points(progB_io(df), "AvgCPU_Percent"))
    /\ pc' = "savefig"
    /\ UNCHANGED <<csv, chart, idx, df, fs, written, stdout, status, uncaught, run>>

\* lines 276-301: one iteration of the loop over the worker types
PlotTime ==
    /\ pc = "plot" /\ chart = 4
    /\ idx <= Len(LoopWorkers)
    /\ LET worker == LoopWorkers[idx]
       IN  figs' = AxPlot(AxPlot(figs, idx,
                              Points(progA_subset(df, worker), "ExecutionTime_Sec")),
                          idx, Points(progB_subset(df, worker), "ExecutionTime_Sec"))
    /\ idx' = idx + 1
    /\ pc' = IF idx = Len(LoopWorkers) THEN "savefig" ELSE "plot"
    /\ UNCHANGED <<csv, chart, df, fs, written, stdout, status, uncaught, run>>

\* lines 151-152, 197-198, 242-243, 304-305
SaveImage ==
    /\ pc = "savefig"
    /\ fs' = SaveFig(fs, SaveNames[chart], figs[Len(figs)])
    /\ written' = Append(written, SaveNames[chart])
    /\ pc' = "print"
    /\ UNCHANGED <<csv, chart, idx, df, figs, stdout, status, uncaught, run>>

\* lines 153, 199, 244, 306
PrintGenerated ==
    /\ pc = "print"
    /\ stdout' = Append(stdout, Msg("Generated", PrintNames[chart]))
    /\ pc' = "close"
    /\ UNCHANGED <<csv, chart, idx, df, figs, fs, written, status, uncaught, run>>

\* mutant: main() returns after the third chart
CloseFigureEarlyEnd ==
    /\ pc = "close"
    /\ figs' = Close(figs)
    /\ IF chart < Len(SaveNames) - 1
       THEN /\ chart' = chart + 1
            /\ pc' = "subplots"
       ELSE /\ chart' = chart
            /\ pc' = "complete"
    /\ UNCHANGED <<csv, idx, df, fs, written, stdout, status, uncaught, run>>

\* lines 154, 200, 245, 307
CloseFigure ==
    /\ pc = "close"
    /\ figs' = Close(figs)
    /\ IF chart < Len(SaveNames)
       THEN /\ chart' = chart + 1
            /\ pc' = "subplots"
       ELSE /\ chart' = chart
            /\ pc' = "complete"
    /\ UNCHANGED <<csv, idx, df, fs, written, stdout, status, uncaught, run>>

\* lines 310-324, then main() returns and the interpreter exits with status 0
Complete ==
    /\ pc = "complete"
    /\ Exit(0, <<Msg("All 4 plots generated successfully!", "")>>)
    /\ UNCHANGED <<csv, chart, idx, df, figs, fs, written, uncaught, run>>

\* A pyplot call (style.use, subplots, plot, tight_layout, savefig, close)
\* raises: nothing in main() catches it, the interpreter prints the traceback
\* and exits with status 1.  A savefig that raises has saved no image.
Fault ==
    /\ pc \in {"configure", "subplots", "plot", "savefig", "close"}
    /\ pc' = "exited"
    /\ status' = 1
    /\ uncaught' = TRUE
    /\ UNCHANGED <<csv, chart, idx, df, figs, fs, written, stdout, run>>

\* The program is started a second time on the same input and in the same
\* working directory: a new process, the files of the first run still there.
Rerun ==
    /\ pc = "exited"
    /\ run = "first"
    /\ run' = "second"
    /\ pc' = "exists"
    /\ chart' = 1
    /\ idx' = 1
    /\ df' = NoTable
    /\ figs' = <<>>
    /\ written' = <<>>
    /\ stdout' = <<>>
    /\ status' = 0
    /\ uncaught' = FALSE
    /\ UNCHANGED <<csv, fs>>

Step ==
    \/ CheckExists
    \/ ReadCsv
    \/ Validate
    \/ Configure
    \/ CreateFigure
    \/ PlotCpu
    \/ PlotMem
    \/ PlotIo
    \/ PlotTime
    \/ SaveImage
    \/ PrintGenerated
    \/ CloseFigure
    \/ Complete

Next == Step \/ Fault

Spec == Init /\ [][Next]_vars

\* One run in which no library call fails.  main() is straight-line code on
\* one thread, so a step that can be taken is taken.
SpecRun == Init /\ [][Step]_vars /\ WF_vars(Step)

\* No library call fails, and the program may be run a second time.
NextRerun == Step \/ Rerun

SpecRerun == Init /\ [][NextRerun]_vars

----------------------------------------------------------------------------
(* Vocabulary of the properties *)

Range(s) == {s[i] : i \in DOMAIN s}

ImageNames == {CpuPng, MemPng, IoPng, TimePng}

\* the order in which the program is to write its images
ImageOrder == <<CpuPng, MemPng, IoPng, TimePng>>

PlottedPrograms == {"progA", "progB"}
PlottedWorkers == {"cpu", "mem", "io"}

FileAbsent == ~csv.exists
FileMalformed == csv.exists /\ ~csv.parses
ColumnMissing ==
    csv.exists /\ csv.parses /\ \E col \in required_columns : col \notin csv.columns

\* the file exists, parses and has the six required columns
ValidInput == csv.exists /\ csv.parses /\ required_columns \subseteq csv.columns

\* ... and has rows of both programs and of all three worker types
FullInput ==
    /\ ValidInput
    /\ \A p \in PlottedPrograms : \E i \in DOMAIN csv.rows : csv.rows[i].Program = p
    /\ \A w \in PlottedWorkers : \E i \in DOMAIN csv.rows : csv.rows[i].Worker_Type = w

Terminated == pc = "exited"

AllFourWritten ==
    /\ Len(written) = Cardinality(ImageNames)
    /\ Range(written) = ImageNames
    /\ DOMAIN fs = ImageNames

NothingWritten == written = <<>> /\ DOMAIN fs = {}

----------------------------------------------------------------------------
(* C1 *)

\* how far main() has got: every statement of the model has its own rank
Progress ==
    CASE pc = "exists"    -> 0
      [] pc = "read"      -> 1
      [] pc = "validate"  -> 2
      [] pc = "configure" -> 3
      [] pc = "subplots"  -> 10 * chart
      [] pc = "plot"      -> 10 * chart + idx
      [] pc = "savefig"   -> 10 * chart + 5
      [] pc = "print"     -> 10 * chart + 6
      [] pc = "close"     -> 10 * chart + 7
      [] pc = "complete"  -> 50
      [] pc = "exited"    -> 51

\* C1: on an input file that exists, parses, has the six required columns
\* and rows of both programs and all three worker types, the run terminates
\* (until it has, a next statement can always be executed, and every
\* statement executed moves main() forward, at most 51 times), and it
\* terminates with exit status 0 having written exactly the four image files
\* and no other file.
C1_WellFormedInputSucceeds ==
    /\ [](FullInput =>
            /\ Terminated => (status = 0 /\ ~uncaught /\ AllFourWritten)
            /\ ~Terminated => ENABLED Step
            /\ Progress \in 0..51)
    /\ [][FullInput => Progress' > Progress]_vars

C1_Witness == FullInput /\ Terminated /\ status = 0 /\ AllFourWritten

----------------------------------------------------------------------------
(* C2 *)

\* C2: when the input file is absent, is not parseable or lacks a required
\* column, the run never creates or overwrites an image, never goes past the
\* validation, and when it has terminated its exit status is 1 after exactly
\* one sys.exit (no retry, no other path).
C2_RecognizedErrorsExitOne ==
    (FileAbsent \/ FileMalformed \/ ColumnMissing) =>
        /\ NothingWritten
        /\ figs = <<>>
        /\ pc \in {"exists", "read", "validate", "exited"}
        /\ Terminated => status = 1 /\ ~uncaught
        /\ ~Terminated => ENABLED Step

C2_Witness == FileAbsent /\ Terminated /\ status = 1 /\ NothingWritten

----------------------------------------------------------------------------
(* C3 *)

\* C3: if any one of the six required columns is absent from the parsed
\* table, no figure is ever created, no image saved and no "Generated" line
\* printed, whichever column it is, and the run exits with status 1.
C3_ColumnCheckPrecedesRendering ==
    ColumnMissing =>
        /\ figs = <<>>
        /\ written = <<>>
        /\ \A n \in ImageNames : n \notin DOMAIN fs
        /\ \A i \in DOMAIN stdout : stdout[i][1] # "Generated"
        /\ pc \notin {"configure", "subplots", "plot", "savefig", "print", "close", "complete"}
        /\ Terminated => status = 1

\* only ExecutionTime_Sec, which three of the four charts never read, is missing
C3_Witness ==
    /\ csv.exists /\ csv.parses
    /\ required_columns \ csv.columns = {"ExecutionTime_Sec"}
    /\ Terminated /\ status = 1 /\ written = <<>>

----------------------------------------------------------------------------
(* C4 *)

\* C4, as claimed: in every terminal state, also after an uncaught rendering
\* or save failure, the images written by the run are all four or none.
C4_AllOrNothingEverywhere ==
    Terminated => (Range(written) = ImageNames \/ Range(written) = {})

\* C4, amended: in a terminal state reached by a normal exit the run has
\* written all four images, in one reached through a recognized error it has
\* written none; in one reached by an uncaught failure while working on
\* chart k it has written the images of the charts before k, and chart k's
\* own only if the failure came after its save: a prefix of the order cpu,
\* mem, io, time that may be a proper, non-empty part of the four.
C4_PrefixAtTermination ==
    Terminated =>
        /\ written = SubSeq(ImageOrder, 1, Len(written))
        /\ (~uncaught /\ ValidInput) => (status = 0 /\ AllFourWritten)
        /\ (~uncaught /\ ~ValidInput) => (status = 1 /\ NothingWritten)
        /\ uncaught => (status = 1 /\ Len(written) \in {chart - 1, chart})

\* the run died in the third chart with two of the four images on disk
C4_Witness ==
    /\ Terminated /\ uncaught
    /\ written = <<CpuPng, MemPng>>
    /\ DOMAIN fs = {CpuPng, MemPng}

----------------------------------------------------------------------------
(* C5, C6: what a saved chart shows *)

PointOf(r, ycol) == <<r.Scale, r[ycol]>>

\* the rows of the input file of worker type w and program p
Matching(w, p) ==
    {j \in DOMAIN csv.rows :
        csv.rows[j].Worker_Type = w /\ csv.rows[j].Program = p}

Count(s, v) == Cardinality({i \in DOMAIN s : s[i] = v})

\* s is, as a multiset, the points (Scale, ycol) of the rows of worker type w
\* and program p, and lists them in non-decreasing order of Scale
IsSeriesOf(s, w, p, ycol) ==
    /\ Len(s) = Cardinality(Matching(w, p))
    /\ \A i \in DOMAIN s :
          \E j \in Matching(w, p) : s[i] = PointOf(csv.rows[j], ycol)
    /\ \A j \in Matching(w, p) :
          Count(s, PointOf(csv.rows[j], ycol)) =
              Cardinality({k \in Matching(w, p) :
                  PointOf(csv.rows[k], ycol) = PointOf(csv.rows[j], ycol)})
    /\ \A i, j \in DOMAIN s : i < j => s[i][1] <= s[j][1]

SinglePanelCharts ==
    {[file |-> CpuPng, worker |-> "cpu", y |-> "AvgCPU_Percent"],
     [file |-> MemPng, worker |-> "mem", y |-> "AvgMemory_Percent"],
     [file |-> IoPng,  worker |-> "io",  y |-> "AvgCPU_Percent"]}

\* C5: each saved single-panel chart (cpu, mem, io) has one panel with two
\* series, progA then progB; the series of program p is exactly the multiset
\* of the input rows of the chart's worker type and of program p, as points
\* (Scale, the chart's y column), in non-decreasing order of Scale.
C5_SinglePanelSeriesExact ==
    \A c \in SinglePanelCharts :
        c.file \in DOMAIN fs =>
            /\ Len(fs[c.file]) = 1
            /\ Len(fs[c.file][1]) = 2
            /\ IsSeriesOf(fs[c.file][1][1], c.worker, "progA", c.y)
            /\ IsSeriesOf(fs[c.file][1][2], c.worker, "progB", c.y)

\* the cpu chart is on disk for a table that lists two progA cpu rows in
\* descending Scale order and a row that is not of progA and cpu
C5_Witness ==
    /\ CpuPng \in DOMAIN fs
    /\ \E i, j \in Matching("cpu", "progA") :
          i < j /\ csv.rows[i].Scale > csv.rows[j].Scale
    /\ Cardinality(Matching("cpu", "progA")) < Len(csv.rows)

PanelOrder == <<"cpu", "mem", "io">>

\* how often the point of row j under column ycol occurs in the saved figure
Occurrences(fig, j, ycol) ==
    LET v == PointOf(csv.rows[j], ycol)
        cells == {<<a, k>> \in (DOMAIN fig) \X (1..2) : k \in DOMAIN fig[a]}
    IN  Cardinality({<<c, i>> \in cells \X (1..Len(csv.rows)) :
            i \in DOMAIN fig[c[1]][c[2]] /\ fig[c[1]][c[2]][i] = v})

\* C6: the saved execution-time chart has three panels, in the order cpu,
\* mem, io, each with two series, progA then progB; the series of panel w
\* and program p is exactly the rows of worker type w and program p as points
\* (Scale, ExecutionTime_Sec) in non-decreasing Scale order, and every input
\* row of a plotted program and worker type is in one series of one panel.
C6_TimeChartPanelsExact ==
    TimePng \in DOMAIN fs =>
        LET fig == fs[TimePng]
        IN  /\ Len(fig) = Len(PanelOrder)
            /\ \A a \in DOMAIN PanelOrder :
                  /\ Len(fig[a]) = 2
                  /\ IsSeriesOf(fig[a][1], PanelOrder[a], "progA", "ExecutionTime_Sec")
                  /\ IsSeriesOf(fig[a][2], PanelOrder[a], "progB", "ExecutionTime_Sec")
            /\ \A j \in DOMAIN csv.rows :
                  (csv.rows[j].Program \in PlottedPrograms
                      /\ csv.rows[j].Worker_Type \in PlottedWorkers)
                  => Occurrences(fig, j, "ExecutionTime_Sec") = 1

\* the time chart is on disk for a table with progB rows of two worker types
C6_Witness ==
    /\ TimePng \in DOMAIN fs
    /\ Matching("mem", "progB") # {}
    /\ Matching("io", "progB") # {}
    /\ Matching("io", "progA") # {}

----------------------------------------------------------------------------
(* C7 *)

SeriesIndex(p) == IF p = "progA" THEN 1 ELSE 2

PanelIndex(w) == CHOOSE a \in DOMAIN PanelOrder : PanelOrder[a] = w

FileOfWorker(w) ==
    (CHOOSE c \in SinglePanelCharts : c.worker = w).file

\* C7: on a valid table in which some (worker type, program) filter matches
\* no row, no error state is entered: the status stays 0 and no exception
\* is raised, a run that has ended has saved all four images, and the series
\* of every filter that matches no row has zero points in its single-panel
\* chart and in its panel of the time chart; on a table with no row at all,
\* where every series is empty, each statement up to the end can be executed.
C7_EmptyFilterIsNoError ==
    (ValidInput /\ \E w \in PlottedWorkers, p \in PlottedPrograms : Matching(w, p) = {}) =>
        /\ ~uncaught
        /\ ~Terminated => status = 0
        /\ (csv.rows = <<>> /\ ~Terminated) => ENABLED Step
        /\ Terminated =>
              /\ status = 0
              /\ AllFourWritten
              /\ \A w \in PlottedWorkers, p \in PlottedPrograms :
                    Matching(w, p) = {} =>
                        /\ fs[FileOfWorker(w)][1][SeriesIndex(p)] = <<>>
                        /\ fs[TimePng][PanelIndex(w)][SeriesIndex(p)] = <<>>

\* a table with rows, none of them of worker type io, and one with no progB
\* row of worker type cpu, has been plotted to the end
C7_Witness ==
    /\ ValidInput /\ Terminated /\ status = 0 /\ AllFourWritten
    /\ csv.rows # <<>>
    /\ \A i \in DOMAIN csv.rows : csv.rows[i].Worker_Type # "io"
    /\ Matching("cpu", "progB") = {}

----------------------------------------------------------------------------
(* C8 *)

----------------------------------------------------------------------------
(* C9 *)

\* C9: at most one figure is open in any state; when a figure is about to
\* be created none is open and the images of all earlier charts are saved;
\* a figure is closed only after its own image is saved; and when the run
\* has exited with status 0 no figure is open.
C9_FiguresSequential ==
    /\ Len(figs) <= 1
    /\ pc = "subplots" => (figs = <<>> /\ Len(written) = chart - 1)
    /\ (figs # <<>> /\ ~Terminated) =>
          /\ pc \in {"plot", "savefig", "print", "close"}
          /\ Len(written) = IF pc \in {"print", "close"} THEN chart ELSE chart - 1
    /\ (Terminated /\ status = 0) => figs = <<>>

\* the fourth figure is about to be created: three saved, none open
C9_Witness ==
    /\ pc = "subplots" /\ chart = 4
    /\ figs = <<>>
    /\ written = <<CpuPng, MemPng, IoPng>>

----------------------------------------------------------------------------
(* C10 *)

\* C10: the images written so far are a prefix of the order cpu, mem, io,
\* time (each at most once); a "Generated: <file>" line is on the console
\* only if that file has been saved; and the "All 4 plots generated
\* successfully!" line only if all four have.
C10_WriteOrderAndMessages ==
    /\ Len(written) <= Len(ImageOrder)
    /\ written = SubSeq(ImageOrder, 1, Len(written))
    /\ \A i \in DOMAIN stdout :
          stdout[i][1] = "Generated" => stdout[i][2] \in Range(written)
    /\ (\E i \in DOMAIN stdout : stdout[i][1] = "All 4 plots generated successfully!")
          => Range(written) = ImageNames

\* the second confirmation has just been printed
C10_Witness ==
    /\ pc = "close" /\ chart = 2
    /\ written = <<CpuPng, MemPng>>
    /\ stdout[Len(stdout)] = <<"Generated", MemPng>>

====
